---- MODULE Spec2Model ----
(***************************************************************************)
(* Model of terraform/modules/secrets/rotation.py: the Lambda handler that *)
(* rotates a secret held in AWS Secrets Manager, its three generators and  *)
(* its validator.                                                          *)
(*                                                                         *)
(* Python values are records [t, s, n]: t is the type tag, s the items of  *)
(* a str or list (a str is a sequence of one-character strings), n the     *)
(* value of an int.  A dict is a function from a finite set of keys to     *)
(* such values.                                                            *)
(***************************************************************************)
EXTENDS Integers, Sequences, FiniteSets, TLC

\* ------------------------------------------------------------------ bounds
\* Number of handler invocations in one behaviour.
MaxInvocations == 2
\* Number of distinct states of the random source an invocation may find.
NumSeeds == 2

Invocations == 1..MaxInvocations
Seeds == 0..(NumSeeds - 1)

\* ------------------------------------------------------------ Python values
Str(s) == [t |-> "str", s |-> s, n |-> 0]
PyList(s) == [t |-> "list", s |-> s, n |-> 0]
PyInt(n) == [t |-> "int", s |-> <<>>, n |-> n]
None == [t |-> "none", s |-> <<>>, n |-> 0]
EmptyDict == [k \in {} |-> None]

\* bool(v): None, 0, "" and [] are falsy.
Truthy(v) ==
    CASE v.t = "none" -> FALSE
      [] v.t = "int" -> v.n # 0
      [] OTHER -> Len(v.s) > 0

\* len(v) is defined for str and list; it raises TypeError for None and int.
HasLen(v) == v.t \in {"str", "list"}
PyLen(v) == Len(v.s)

\* dict.get(key, default)
DictGet(d, key, default) == IF key \in DOMAIN d THEN d[key] ELSE default

\* ---------------------------------------------------------------- alphabets
ascii_letters ==
    << "a","b","c","d","e","f","g","h","i","j","k","l","m",
       "n","o","p","q","r","s","t","u","v","w","x","y","z",
       "A","B","C","D","E","F","G","H","I","J","K","L","M",
       "N","O","P","Q","R","S","T","U","V","W","X","Y","Z" >>
digits == << "0","1","2","3","4","5","6","7","8","9" >>
symbols == << "!","@","#","$","%","^","&","*" >>

password_characters == ascii_letters \o digits \o symbols
token_characters == ascii_letters \o digits
api_key_characters == ascii_letters \o digits

\* ---------------------------------------------------------------- generators
\* The random source: the k-th draw made from state `seed`.  The handler does
\* not seed the `random` module, so the state it finds is arbitrary; a
\* behaviour picks it from Seeds.
Draw(seed, k) == seed * 37 + k * 11

\* random.choice(characters) on draw r.
random_choice(characters, r) == characters[(r % Len(characters)) + 1]

\* Generate with one draw too few.
Generate_OneShort(length, characters, seed, first) ==
    Str([k \in 1..(length - 1) |-> random_choice(characters, Draw(seed, first + k))])

\* ''.join(random.choice(characters) for _ in range(length)); `first` is the
\* number of draws made from the source before this call.
Generate(length, characters, seed, first) ==
    Str([k \in 1..length |-> random_choice(characters, Draw(seed, first + k))])

generate_password(length, seed, first) ==
    Generate(length, password_characters, seed, first)

generate_token(length, seed, first) ==
    Generate(length, token_characters, seed, first)

generate_api_key(length, seed, first) ==
    Generate(length, api_key_characters, seed, first)

\* ----------------------------------------------------------------- validator
\* FieldCheck with <= for <.
FieldCheck_Strict(secret, f, m) ==
    LET v == DictGet(secret, f, None)
    IN  IF ~Truthy(v) THEN "fail"
        ELSE IF ~HasLen(v) THEN "raise"
        ELSE IF PyLen(v) <= m THEN "fail"
        ELSE "pass"

\* One `if not secret.get(f) or len(secret[f]) < m` test of validate_secret:
\* "fail" returns False, "pass" falls through, "raise" is a TypeError from len.
FieldCheck(secret, f, m) ==
    LET v == DictGet(secret, f, None)
    IN  IF ~Truthy(v) THEN "fail"
        ELSE IF ~HasLen(v) THEN "raise"
        ELSE IF PyLen(v) < m THEN "fail"
        ELSE "pass"

\* The body of the try block of validate_secret, on a parsed value
\* [t |-> "dict", d |-> dict] or a non-dict: .get on a non-dict raises
\* AttributeError.
ValidateBody(secret) ==
    IF secret.t # "dict" THEN "raise"
    ELSE LET p == FieldCheck(secret.d, "password", 8)
             k == FieldCheck(secret.d, "token", 16)
             a == FieldCheck(secret.d, "api_key", 16)
         IN  IF p # "pass" THEN p
             ELSE IF k # "pass" THEN k
             ELSE IF a # "pass" THEN a
             ELSE "pass"

\* validate_secret(secret): [raised, value]; `except Exception` turns a raise
\* in the body into the return value False.
validate_secret(secret) ==
    LET b == ValidateBody(secret)
    IN  IF b = "raise"
        THEN [raised |-> FALSE, value |-> FALSE]
        ELSE [raised |-> FALSE, value |-> (b = "pass")]

\* ---------------------------------------------------------------------- JSON
\* A SecretString is a text: kind "object" is the text of a JSON object with
\* the given members, "array" the text of some other JSON value, "garbage" a
\* text that is not JSON, "absent" a version that holds SecretBinary only.
JsonText(kind, members) == [kind |-> kind, members |-> members]
NoText == JsonText("absent", EmptyDict)

\* json.dumps of a dict.
json_dumps(d) == JsonText("object", d)

\* json.loads: [raised, value]; raises JSONDecodeError on a text that is not
\* JSON.
json_loads(text) ==
    CASE text.kind = "object" ->
             [raised |-> FALSE, value |-> [t |-> "dict", d |-> text.members]]
      [] text.kind = "array" ->
             [raised |-> FALSE, value |-> [t |-> "list", d |-> EmptyDict]]
      [] OTHER ->
             [raised |-> TRUE, value |-> [t |-> "none", d |-> EmptyDict]]

\* --------------------------------------------------------------- the store
\* Secrets Manager keeps the versions of the secret in creation order; a
\* VersionId is the index of its version, 0 stands for a parameter left out.
\* store = [versions |-> sequence of SecretString, stages |-> sequence of
\* sets of staging labels].
EmptyStore == [versions |-> <<>>, stages |-> <<>>]
VersionIds(st) == 1..Len(st.versions)
Holders(st, label) == {v \in VersionIds(st) : label \in st.stages[v]}
NoResponse == [SecretString |-> NoText, VersionId |-> 0]

\* GetSecretValue(SecretId): the version labelled AWSCURRENT.
get_secret_value(st) ==
    IF Holders(st, "AWSCURRENT") = {}
    THEN [ok |-> FALSE, error |-> "ResourceNotFoundException",
          response |-> NoResponse]
    ELSE LET v == CHOOSE h \in Holders(st, "AWSCURRENT") : TRUE
         IN  [ok |-> TRUE, error |-> "",
              response |-> [SecretString |-> st.versions[v], VersionId |-> v]]

\* PutSecretValue(SecretId, SecretString, VersionStages): a new version that
\* takes the given labels from whichever versions held them.
put_secret_value(st, req) ==
    IF Len(st.versions) = 0
    THEN [ok |-> FALSE, error |-> "ResourceNotFoundException",
          store |-> st, VersionId |-> 0]
    ELSE [ok |-> TRUE, error |-> "",
          store |-> [versions |-> Append(st.versions, req.SecretString),
                     stages |-> Append([v \in VersionIds(st) |->
                                           st.stages[v] \ req.VersionStages],
                                       req.VersionStages)],
          VersionId |-> Len(st.versions) + 1]

\* UpdateSecretVersionStage(SecretId, VersionStage, MoveToVersionId,
\* RemoveFromVersionId).  The label is removed from RemoveFromVersionId and
\* then attached to MoveToVersionId.  The call fails when a named version
\* does not exist, when RemoveFromVersionId does not hold the label, or when
\* the label is attached to a version other than the two named.  Whether the
\* service accepts a request that names one version twice is not fixed by
\* the source: sameIdAccepted chooses.
update_secret_version_stage(st, req, sameIdAccepted) ==
    LET label == req.VersionStage
        to == req.MoveToVersionId
        from == req.RemoveFromVersionId
        held == Holders(st, label)
        fail(e) == [ok |-> FALSE, error |-> e, store |-> st]
    IN  IF (to # 0 /\ to \notin VersionIds(st))
            \/ (from # 0 /\ from \notin VersionIds(st))
        THEN fail("ResourceNotFoundException")
        ELSE IF to = 0 /\ from = 0
        THEN fail("InvalidRequestException")
        ELSE IF from # 0 /\ from \notin held
        THEN fail("InvalidParameterException")
        ELSE IF to # 0 /\ (held \ {to, from}) # {}
        THEN fail("InvalidParameterException")
        ELSE IF to # 0 /\ to = from /\ ~sameIdAccepted
        THEN fail("InvalidParameterException")
        ELSE [ok |-> TRUE, error |-> "",
              store |-> [st EXCEPT !.stages =
                  [v \in VersionIds(st) |->
                      IF v = to THEN st.stages[v] \cup {label}
                      ELSE IF v = from THEN st.stages[v] \ {label}
                      ELSE st.stages[v]]]]

\* ------------------------------------------------------------------- state
VARIABLES
    environ,          \* os.environ: the set of variables that are set
    generators,       \* what the names generate_password, generate_token and
                      \* generate_api_key are bound to in the module globals
    store,            \* the secret in Secrets Manager
    pc,               \* per invocation: the statement it is at
    response,         \* per invocation: the local `response`
    current_secret,   \* per invocation: the local `current_secret`
    new_secret,       \* per invocation: the local `new_secret`
    result,           \* per invocation: how it ended
    fault,            \* per invocation: the step that raised, "" if none
    calls,            \* per invocation: the store calls it made, in order
    pendingVersionId, \* per invocation: the VersionId put_secret_value returned
    storeAtInvoke,    \* per invocation: the store when it was invoked
    storeAtReturn,    \* per invocation: the store when it ended
    validated,        \* per invocation: what validate_secret answered, "no"
                      \* while it has not been called
    vSecret,          \* validate_secret called on its own: the argument
    vRet,             \* validate_secret called on its own: the outcome
    gen               \* a generator called on its own: the call and its outcome

vars == << environ, generators, store, pc, response, current_secret,
           new_secret, result, fault, calls, pendingVersionId,
           storeAtInvoke, storeAtReturn, validated, vSecret, vRet, gen >>

handlerVars == << environ, generators, store, pc, response, current_secret,
                  new_secret, result, fault, calls, pendingVersionId,
                  storeAtInvoke, storeAtReturn, validated >>

\* ------------------------------------------------------------ handler parts
\* A generator binding: the function of this module, or a test double that
\* returns a string of len characters.
Builtin == [stub |-> FALSE, len |-> 0]
Stub(n) == [stub |-> TRUE, len |-> n]
CallGenerator(g, builtin) ==
    IF g.stub THEN Str([k \in 1..g.len |-> "x"]) ELSE builtin

\* NewSecret that carries the stored password over.
NewSecret_KeepsPassword(current, new_password, new_token, new_api_key) ==
    [username |-> DictGet(current, "username", Str(<<"p","o","d","i","n","f","o","-","u","s","e","r">>)),
     password |-> DictGet(current, "password", new_password),
     token |-> new_token,
     api_key |-> new_api_key]

\* The dict literal assigned to new_secret.
NewSecret(current, new_password, new_token, new_api_key) ==
    [username |-> DictGet(current, "username", Str(<<"p","o","d","i","n","f","o","-","u","s","e","r">>)),
     password |-> new_password,
     token |-> new_token,
     api_key |-> new_api_key]

\* PutRequest with the AWSCURRENT label for AWSPENDING.
PutRequest_Current(secret) ==
    [SecretString |-> json_dumps(secret), VersionStages |-> {"AWSCURRENT"}]

\* The arguments of the put_secret_value call.
PutRequest(secret) ==
    [SecretString |-> json_dumps(secret), VersionStages |-> {"AWSPENDING"}]

\* PromoteRequest with the MoveToVersionId argument left out.
PromoteRequest_RemoveOnly(resp) ==
    [VersionStage |-> "AWSCURRENT",
     MoveToVersionId |-> 0,
     RemoveFromVersionId |-> resp.VersionId]

\* The arguments of the update_secret_version_stage call.
PromoteRequest(resp) ==
    [VersionStage |-> "AWSCURRENT",
     MoveToVersionId |-> resp.VersionId,
     RemoveFromVersionId |-> resp.VersionId]

\* The three return values of the handler, and an exception that leaves it.
NoResult == [kind |-> "none", statusCode |-> 0, body |-> <<>>]
\* SuccessResult with the status of the failure branches.
SuccessResult_500 ==
    [kind |-> "returned", statusCode |-> 500,
     body |-> <<"Secret rotation completed successfully">>]
SuccessResult ==
    [kind |-> "returned", statusCode |-> 200,
     body |-> <<"Secret rotation completed successfully">>]
\* ValidationFailedResult with the status of a success.
ValidationFailedResult_200 ==
    [kind |-> "returned", statusCode |-> 200,
     body |-> <<"Secret validation failed">>]
ValidationFailedResult ==
    [kind |-> "returned", statusCode |-> 500,
     body |-> <<"Secret validation failed">>]
\* ErrorResult without the text of the exception.
ErrorResult_NoDetail(e) ==
    [kind |-> "returned", statusCode |-> 500,
     body |-> <<"Error during secret rotation: ", "">>]
\* ErrorResult with the status of a success.
ErrorResult_200(e) ==
    [kind |-> "returned", statusCode |-> 200,
     body |-> <<"Error during secret rotation: ", e>>]
ErrorResult(e) ==
    [kind |-> "returned", statusCode |-> 500,
     body |-> <<"Error during secret rotation: ", e>>]
Raised(e) == [kind |-> "raised", statusCode |-> 0, body |-> <<e>>]

\* The invocation ends with result r; f names the step that raised, if any.
End(i, r, f) ==
    /\ pc' = [pc EXCEPT ![i] = "done"]
    /\ result' = [result EXCEPT ![i] = r]
    /\ fault' = [fault EXCEPT ![i] = f]
    /\ storeAtReturn' = [storeAtReturn EXCEPT ![i] = store']

\* The call log: the operation, whether it succeeded, and the version ids the
\* request named (0 where it names none).
CallEntry(op, ok, to, from) == [op |-> op, ok |-> ok, to |-> to, from |-> from]
Call(i, op, ok, to, from) ==
    calls' = [calls EXCEPT ![i] = Append(@, CallEntry(op, ok, to, from))]

InProgress(i) == pc[i] \notin {"idle", "done"}

\* ------------------------------------------------------------ initial states
OldFields ==
    [password |-> Str(<<"o","l","d">>),
     token |-> Str(<<"o","l","d","t","o","k">>),
     api_key |-> Str(<<"o","l","d","k","e","y">>)]
WithUsername(u) == [k \in {"username"} \cup DOMAIN OldFields |->
                       IF k = "username" THEN u ELSE OldFields[k]]

\* What the secret may hold before the first invocation.
InitialTexts ==
    { JsonText("object", WithUsername(Str(<<"a","l","i","c","e">>))),
      JsonText("object", WithUsername(Str(<<>>))),
      JsonText("object", WithUsername(None)),
      JsonText("object", OldFields),
      JsonText("array", EmptyDict),
      JsonText("garbage", EmptyDict),
      NoText }

\* The secret with one version, labelled AWSCURRENT, or a secret that does
\* not exist.
InitialStores ==
    { [versions |-> <<t>>, stages |-> << {"AWSCURRENT"} >>] : t \in InitialTexts }
    \cup { EmptyStore }

Environs == { {"SECRET_ARN"}, {} }

BuiltinGenerators ==
    [generate_password |-> Builtin, generate_token |-> Builtin,
     generate_api_key |-> Builtin]

NoValue == [t |-> "none", d |-> EmptyDict]
NotCalled == [called |-> FALSE, raised |-> FALSE, value |-> FALSE]
NoGen == [name |-> "", length |-> 0, seed |-> 0, called |-> FALSE, ret |-> None]

InitLocals ==
    /\ pc = [i \in Invocations |-> "idle"]
    /\ response = [i \in Invocations |-> NoResponse]
    /\ current_secret = [i \in Invocations |-> NoValue]
    /\ new_secret = [i \in Invocations |-> EmptyDict]
    /\ result = [i \in Invocations |-> NoResult]
    /\ fault = [i \in Invocations |-> ""]
    /\ calls = [i \in Invocations |-> <<>>]
    /\ pendingVersionId = [i \in Invocations |-> 0]
    /\ storeAtInvoke = [i \in Invocations |-> EmptyStore]
    /\ storeAtReturn = [i \in Invocations |-> EmptyStore]
    /\ validated = [i \in Invocations |-> "no"]

\* The module as written: the generator names are bound to its own functions.
Init ==
    /\ environ \in Environs
    /\ generators = BuiltinGenerators
    /\ store \in InitialStores
    /\ InitLocals
    /\ vSecret = NoValue
    /\ vRet = NotCalled
    /\ gen = NoGen

\* ------------------------------------------------------------------ handler
\* def lambda_handler(event, context): one invocation at a time.
Invoke(i) ==
    /\ pc[i] = "idle"
    /\ \A j \in Invocations : ~InProgress(j)
    /\ pc' = [pc EXCEPT ![i] = "environ"]
    /\ storeAtInvoke' = [storeAtInvoke EXCEPT ![i] = store]
    /\ UNCHANGED << environ, generators, store, response, current_secret,
                    new_secret, result, fault, calls, pendingVersionId,
                    storeAtReturn, vSecret, vRet, gen, validated >>

\* secret_arn = os.environ['SECRET_ARN'], outside the try block.
ReadEnviron(i) ==
    /\ pc[i] = "environ"
    /\ UNCHANGED store
    /\ IF "SECRET_ARN" \in environ
       THEN /\ pc' = [pc EXCEPT ![i] = "client"]
            /\ UNCHANGED << result, fault, storeAtReturn >>
       ELSE End(i, Raised("KeyError: 'SECRET_ARN'"), "environ")
    /\ UNCHANGED << environ, generators, response, current_secret, new_secret,
                    calls, pendingVersionId, storeAtInvoke, vSecret, vRet, gen, validated >>

\* secrets_client = boto3.client('secretsmanager'), outside the try block;
\* it raises when no region or no credentials are configured.
CreateClient(i) ==
    /\ pc[i] = "client"
    /\ UNCHANGED store
    /\ \E ok \in BOOLEAN :
         IF ok
         THEN /\ pc' = [pc EXCEPT ![i] = "get"]
              /\ UNCHANGED << result, fault, storeAtReturn >>
         ELSE End(i, Raised("NoRegionError"), "client")
    /\ UNCHANGED << environ, generators, response, current_secret, new_secret,
                    calls, pendingVersionId, storeAtInvoke, vSecret, vRet, gen, validated >>

Unavailable == "ServiceUnavailableException"

\* response = secrets_client.get_secret_value(SecretId=secret_arn)
\* current_secret = json.loads(response['SecretString'])
GetSecretValue(i) ==
    /\ pc[i] = "get"
    /\ UNCHANGED store
    /\ \E unavailable \in BOOLEAN :
         LET r == IF unavailable
                  THEN [ok |-> FALSE, error |-> Unavailable, response |-> NoResponse]
                  ELSE get_secret_value(store)
             loaded == json_loads(r.response.SecretString)
         IN  /\ Call(i, "get_secret_value", r.ok, 0, 0)
             /\ IF ~r.ok
                THEN /\ End(i, ErrorResult(r.error), "get_secret_value")
                     /\ UNCHANGED << response, current_secret >>
                ELSE /\ response' = [response EXCEPT ![i] = r.response]
                     /\ IF r.response.SecretString.kind = "absent"
                        THEN /\ End(i, ErrorResult("'SecretString'"), "SecretString")
                             /\ UNCHANGED current_secret
                        ELSE IF loaded.raised
                        THEN /\ End(i, ErrorResult("JSONDecodeError"), "json.loads")
                             /\ UNCHANGED current_secret
                        ELSE /\ current_secret' = [current_secret EXCEPT ![i] = loaded.value]
                             /\ pc' = [pc EXCEPT ![i] = "generate"]
                             /\ UNCHANGED << result, fault, storeAtReturn >>
    /\ UNCHANGED << environ, generators, new_secret, pendingVersionId,
                    storeAtInvoke, vSecret, vRet, gen, validated >>

\* new_password = generate_password(32) ... new_secret = {...}
GenerateNew(i) ==
    /\ pc[i] = "generate"
    /\ UNCHANGED store
    /\ \E seed \in Seeds :
         LET new_password == CallGenerator(generators.generate_password,
                                           generate_password(32, seed, 0))
             new_token == CallGenerator(generators.generate_token,
                                        generate_token(64, seed, 32))
             new_api_key == CallGenerator(generators.generate_api_key,
                                          generate_api_key(48, seed, 96))
         IN  IF current_secret[i].t # "dict"
             THEN /\ End(i, ErrorResult("AttributeError"), "current_secret.get")
                  /\ UNCHANGED new_secret
             ELSE /\ new_secret' = [new_secret EXCEPT ![i] =
                        NewSecret(current_secret[i].d, new_password, new_token,
                                  new_api_key)]
                  /\ pc' = [pc EXCEPT ![i] = "put"]
                  /\ UNCHANGED << result, fault, storeAtReturn >>
    /\ UNCHANGED << environ, generators, response, current_secret, calls,
                    pendingVersionId, storeAtInvoke, vSecret, vRet, gen, validated >>

\* secrets_client.put_secret_value(SecretId=..., SecretString=...,
\*                                 VersionStages=['AWSPENDING'])
PutSecretValue(i) ==
    /\ pc[i] = "put"
    /\ \E unavailable \in BOOLEAN :
         LET r == IF unavailable
                  THEN [ok |-> FALSE, error |-> Unavailable, store |-> store,
                        VersionId |-> 0]
                  ELSE put_secret_value(store, PutRequest(new_secret[i]))
         IN  /\ store' = r.store
             /\ Call(i, "put_secret_value", r.ok, 0, 0)
             /\ IF r.ok
                THEN /\ pendingVersionId' = [pendingVersionId EXCEPT ![i] = r.VersionId]
                     /\ pc' = [pc EXCEPT ![i] = "validate"]
                     /\ UNCHANGED << result, fault, storeAtReturn >>
                ELSE /\ End(i, ErrorResult(r.error), "put_secret_value")
                     /\ UNCHANGED pendingVersionId
    /\ UNCHANGED << environ, generators, response, current_secret, new_secret,
                    storeAtInvoke, vSecret, vRet, gen, validated >>

\* Validate that goes on to the promote call whatever validate_secret answers.
Validate_AlwaysPromote(i) ==
    /\ pc[i] = "validate"
    /\ UNCHANGED store
    /\ pc' = [pc EXCEPT ![i] = "promote"]
    /\ validated' = [validated EXCEPT ![i] =
           IF validate_secret([t |-> "dict", d |-> new_secret[i]]).value
           THEN "true" ELSE "false"]
    /\ UNCHANGED << environ, generators, response, current_secret, new_secret,
                    result, fault, storeAtReturn,
                    calls, pendingVersionId, storeAtInvoke, vSecret, vRet, gen >>

\* if validate_secret(new_secret): ... else: return {'statusCode': 500, ...}
Validate(i) ==
    /\ pc[i] = "validate"
    /\ UNCHANGED store
    /\ IF validate_secret([t |-> "dict", d |-> new_secret[i]]).value
       THEN /\ pc' = [pc EXCEPT ![i] = "promote"]
            /\ validated' = [validated EXCEPT ![i] = "true"]
            /\ UNCHANGED << result, fault, storeAtReturn >>
       ELSE /\ End(i, ValidationFailedResult, "")
            /\ validated' = [validated EXCEPT ![i] = "false"]
    /\ UNCHANGED << environ, generators, response, current_secret, new_secret,
                    calls, pendingVersionId, storeAtInvoke, vSecret, vRet, gen >>

\* secrets_client.update_secret_version_stage(...); return {'statusCode': 200, ...}
UpdateSecretVersionStage(i) ==
    /\ pc[i] = "promote"
    /\ \E unavailable \in BOOLEAN, sameIdAccepted \in BOOLEAN :
         LET req == PromoteRequest(response[i])
             r == IF unavailable
                  THEN [ok |-> FALSE, error |-> Unavailable, store |-> store]
                  ELSE update_secret_version_stage(store, req, sameIdAccepted)
         IN  /\ store' = r.store
             /\ Call(i, "update_secret_version_stage", r.ok,
                     req.MoveToVersionId, req.RemoveFromVersionId)
             /\ IF r.ok
                THEN End(i, SuccessResult, "")
                ELSE End(i, ErrorResult(r.error), "update_secret_version_stage")
    /\ UNCHANGED << environ, generators, response, current_secret, new_secret,
                    pendingVersionId, storeAtInvoke, vSecret, vRet, gen, validated >>

Next ==
    \E i \in Invocations :
        \/ Invoke(i)
        \/ ReadEnviron(i)
        \/ CreateClient(i)
        \/ GetSecretValue(i)
        \/ GenerateNew(i)
        \/ PutSecretValue(i)
        \/ Validate(i)
        \/ UpdateSecretVersionStage(i)

Spec == Init /\ [][Next]_vars

\* --------------------------------------------- the handler with test doubles
\* A test replaces the generators by doubles that return strings of a chosen
\* length: a 4-character password, a token one short of its threshold, an
\* empty api_key.
GeneratorBindings ==
    [generate_password : {Builtin, Stub(4)},
     generate_token : {Builtin, Stub(15)},
     generate_api_key : {Builtin, Stub(0)}]

InitInjected ==
    /\ environ \in Environs
    /\ generators \in GeneratorBindings
    /\ store \in InitialStores
    /\ InitLocals
    /\ vSecret = NoValue
    /\ vRet = NotCalled
    /\ gen = NoGen

SpecInjected == InitInjected /\ [][Next]_vars

\* ------------------------------------------------ validate_secret on its own
\* Largest length of a field value handed to validate_secret.
MaxFieldLen == 17

Xs(n) == [k \in 1..n |-> "x"]
FieldLens == {0, 7, 8, 15, 16, MaxFieldLen}
FieldValues ==
    {None, PyInt(0), PyInt(5)}
    \cup {Str(Xs(n)) : n \in FieldLens}
    \cup {PyList(Xs(n)) : n \in {0, 8, 16}}
ValidatedFields == {"password", "token", "api_key"}

\* Every dict over the three inspected keys, and two values that are no dict.
ValidateInputs ==
    {[t |-> "dict", d |-> d] :
        d \in UNION {[D -> FieldValues] : D \in SUBSET ValidatedFields}}
    \cup {[t |-> "list", d |-> EmptyDict], NoValue}

InitValidate ==
    /\ environ = {"SECRET_ARN"}
    /\ generators = BuiltinGenerators
    /\ store = EmptyStore
    /\ InitLocals
    /\ vSecret \in ValidateInputs
    /\ vRet = NotCalled
    /\ gen = NoGen

CallValidate ==
    /\ ~vRet.called
    /\ vRet' = [called |-> TRUE,
                raised |-> validate_secret(vSecret).raised,
                value |-> validate_secret(vSecret).value]
    /\ UNCHANGED << handlerVars, vSecret, gen >>

NextValidate == CallValidate

SpecValidate == InitValidate /\ [][NextValidate]_vars

\* ------------------------------------------------------------------- claims
Done(i) == pc[i] = "done"
Returned(i) == Done(i) /\ result[i].kind = "returned"
SuccessText == "Secret rotation completed successfully"
ValidationFailedText == "Secret validation failed"
ErrorPrefix == "Error during secret rotation: "
IsSuccess(i) == Returned(i) /\ result[i].body = <<SuccessText>>
IsValidationFailed(i) == Returned(i) /\ result[i].body = <<ValidationFailedText>>
IsError(i) == Returned(i) /\ Len(result[i].body) = 2 /\ result[i].body[1] = ErrorPrefix
Ops(i) == [k \in 1..Len(calls[i]) |-> calls[i][k].op]
CallsOf(i, op) == {k \in 1..Len(calls[i]) : calls[i][k].op = op}
CallOk(i, op) == \E k \in CallsOf(i, op) : calls[i][k].ok
Passed(i) == validate_secret([t |-> "dict", d |-> new_secret[i]]).value
Promoted(i) == Done(i) /\ CallOk(i, "update_secret_version_stage")
AtRest == \A i \in Invocations : ~InProgress(i)

\* C1: in every invocation in which validation succeeds and promote is called,
\* the call names the version the PENDING write returned as the one that
\* receives AWSCURRENT and the version read in step 1 as the one that loses
\* it, and afterwards AWSCURRENT is on the new version and not on the old one.
C1_PromoteMovesCurrentToNew ==
    \A i \in Invocations :
        Promoted(i) =>
            /\ \A k \in CallsOf(i, "update_secret_version_stage") :
                   /\ calls[i][k].to = pendingVersionId[i]
                   /\ calls[i][k].from = response[i].VersionId
            /\ "AWSCURRENT" \in storeAtReturn[i].stages[pendingVersionId[i]]
            /\ "AWSCURRENT" \notin storeAtReturn[i].stages[response[i].VersionId]

\* C2: after two invocations, one after the other, that both return Success,
\* exactly one version is labelled AWSCURRENT and it holds the bundle the
\* second invocation generated.
C2_SecondBundleIsCurrent ==
    \A i, j \in Invocations :
        (IsSuccess(i) /\ IsSuccess(j) /\ pendingVersionId[i] < pendingVersionId[j]) =>
            /\ Cardinality(Holders(store, "AWSCURRENT")) = 1
            /\ \A h \in Holders(store, "AWSCURRENT") :
                   store.versions[h] = json_dumps(new_secret[j])

\* C3: every invocation ends by returning a status/message result, never by
\* raising, whatever the environment and the store do.
C3_NeverRaises ==
    \A i \in Invocations : Done(i) => result[i].kind = "returned"

\* C4: at rest, after any completed invocations with any outcomes, exactly
\* one version of the secret is labelled AWSCURRENT.
C4_OneCurrentAtRest ==
    (AtRest /\ Len(store.versions) > 0) =>
        Cardinality(Holders(store, "AWSCURRENT")) = 1

\* C4 witness: both invocations are over, one with Success and one with an
\* error, and the secret has three versions.
C4_Witness ==
    /\ AtRest
    /\ \E i, j \in Invocations : IsSuccess(i) /\ IsError(j)
    /\ Len(store.versions) = 3

\* C5: when the read of the current bundle fails, the invocation returns
\* Error with status 500, calls neither put_secret_value nor
\* update_secret_version_stage, and leaves the store as it found it.
ReadFailed(i) == Done(i) /\ fault[i] \in {"get_secret_value", "SecretString", "json.loads"}
C5_ReadFailureStops ==
    \A i \in Invocations :
        ReadFailed(i) =>
            /\ IsError(i)
            /\ result[i].statusCode = 500
            /\ Ops(i) = <<"get_secret_value">>
            /\ storeAtReturn[i] = storeAtInvoke[i]

\* C5 witness: an invocation over whose get_secret_value call failed.
C5_Witness ==
    \E i \in Invocations :
        /\ ReadFailed(i)
        /\ calls[i] = <<CallEntry("get_secret_value", FALSE, 0, 0)>>

\* C6: when validation of the new bundle fails, the invocation returns
\* ValidationFailed with status 500, never calls update_secret_version_stage,
\* the version it wrote as AWSPENDING is still in the store, and AWSCURRENT
\* is on the version it was on when the invocation began.
ValidationFailedCase(i) == Done(i) /\ CallOk(i, "put_secret_value") /\ ~Passed(i)
C6_ValidationFailureLeavesPending ==
    \A i \in Invocations :
        ValidationFailedCase(i) =>
            /\ Returned(i)
            /\ result[i].statusCode = 500
            /\ result[i].body = <<ValidationFailedText>>
            /\ CallsOf(i, "update_secret_version_stage") = {}
            /\ pendingVersionId[i] \in VersionIds(storeAtReturn[i])
            /\ storeAtReturn[i].versions[pendingVersionId[i]] = json_dumps(new_secret[i])
            /\ "AWSPENDING" \in storeAtReturn[i].stages[pendingVersionId[i]]
            /\ Holders(storeAtReturn[i], "AWSCURRENT") = Holders(storeAtInvoke[i], "AWSCURRENT")
            /\ Holders(storeAtReturn[i], "AWSCURRENT") = {response[i].VersionId}

\* C6 witness: an invocation given a 4-character password ended after its
\* PENDING write with the validation-failed message.
C6_Witness ==
    \E i \in Invocations :
        /\ ValidationFailedCase(i)
        /\ IsValidationFailed(i)
        /\ Len(new_secret[i]["password"].s) = 4

\* C7: every bundle the handler promotes has username, password, token and
\* api_key present and non-empty, whatever bundle was read from the store.
NonEmptyField(d, f) == f \in DOMAIN d /\ d[f].t = "str" /\ Len(d[f].s) > 0
C7_PromotedBundleComplete ==
    \A i \in Invocations :
        Promoted(i) =>
            \A f \in {"username", "password", "token", "api_key"} :
                NonEmptyField(new_secret[i], f)

\* C8: the status code is 200 exactly when the outcome is Success, that is
\* when the read, the PENDING write, validation and the promote call all
\* completed without fault; ValidationFailed and Error return 500.
AllStepsCompleted(i) ==
    /\ fault[i] = ""
    /\ calls[i] = << CallEntry("get_secret_value", TRUE, 0, 0),
                     CallEntry("put_secret_value", TRUE, 0, 0),
                     CallEntry("update_secret_version_stage", TRUE,
                               calls[i][Len(calls[i])].to,
                               calls[i][Len(calls[i])].from) >>
    /\ Passed(i)
C8_StatusMatchesOutcome ==
    \A i \in Invocations :
        Returned(i) =>
            /\ result[i].statusCode \in {200, 500}
            /\ (result[i].statusCode = 200) <=> (result[i].body = <<SuccessText>>)
            /\ (result[i].statusCode = 200) <=> AllStepsCompleted(i)
            /\ (IsValidationFailed(i) \/ IsError(i)) => result[i].statusCode = 500

\* C8 witness: one invocation returned the validation failure with 500 after
\* another returned an error with 500.
C8_Witness ==
    \E i, j \in Invocations :
        /\ IsValidationFailed(i) /\ result[i].statusCode = 500
        /\ IsError(j) /\ result[j].statusCode = 500

\* C9: validate_secret returns True exactly when password is present with
\* length >= 8, token with length >= 16 and api_key with length >= 16; for
\* every other argument it returns False, and it never raises.
LongEnough(d, f, m) == f \in DOMAIN d /\ HasLen(d[f]) /\ Len(d[f].s) >= m
C9_ValidateIffThresholds ==
    vRet.called =>
        /\ ~vRet.raised
        /\ vRet.value <=>
              /\ vSecret.t = "dict"
              /\ LongEnough(vSecret.d, "password", 8)
              /\ LongEnough(vSecret.d, "token", 16)
              /\ LongEnough(vSecret.d, "api_key", 16)

\* C9 witness: validate_secret answered False for a bundle whose password
\* has no length (an int) while token and api_key meet their thresholds.
C9_Witness ==
    /\ vRet.called
    /\ ~vRet.value
    /\ vSecret.t = "dict"
    /\ DOMAIN vSecret.d = ValidatedFields
    /\ vSecret.d["password"] = PyInt(5)
    /\ LongEnough(vSecret.d, "token", 16)
    /\ LongEnough(vSecret.d, "api_key", 16)

\* C10 as stated: an invocation whose read succeeds writes exactly one new
\* version, labelled AWSPENDING, with the username of the bundle read (or
\* "podinfo-user") and a generated password, token and api_key of lengths
\* 32, 64 and 48.
ReadSucceeded(i) == Done(i) /\ CallOk(i, "get_secret_value") /\ ~ReadFailed(i)
WrotePending(i) ==
    LET v == pendingVersionId[i]
        before == storeAtInvoke[i]
        after == storeAtReturn[i]
        read == json_loads(response[i].SecretString).value.d
    IN  /\ Len(after.versions) = Len(before.versions) + 1
        /\ v = Len(after.versions)
        /\ after.stages[v] = {"AWSPENDING"}
        /\ after.versions[v].kind = "object"
        /\ LET b == after.versions[v].members
           IN  /\ DOMAIN b = {"username", "password", "token", "api_key"}
               /\ b["username"] = IF "username" \in DOMAIN read
                                  THEN read["username"]
                                  ELSE Str(<<"p","o","d","i","n","f","o","-","u","s","e","r">>)
               /\ \E seed \in Seeds :
                      /\ b["password"] = generate_password(32, seed, 0)
                      /\ b["token"] = generate_token(64, seed, 32)
                      /\ b["api_key"] = generate_api_key(48, seed, 96)
               /\ Len(b["password"].s) = 32
               /\ Len(b["token"].s) = 64
               /\ Len(b["api_key"].s) = 48
C10_ReadSuccessWritesPending ==
    \A i \in Invocations : ReadSucceeded(i) => WrotePending(i)

\* C10 amended: an invocation whose read and whose PENDING write succeed
\* writes exactly one new version, labelled AWSPENDING, with the username of
\* the bundle read (or "podinfo-user") and a generated password, token and
\* api_key of lengths 32, 64 and 48.
C10_PutSuccessWritesPending ==
    \A i \in Invocations :
        (Done(i) /\ CallOk(i, "put_secret_value")) => WrotePending(i)

\* C10 witness: an invocation that read a bundle without username is over
\* and its PENDING write succeeded.
C10_Witness ==
    \E i \in Invocations :
        /\ Done(i)
        /\ CallOk(i, "put_secret_value")
        /\ current_secret[i].t = "dict"
        /\ "username" \notin DOMAIN current_secret[i].d

\* ------------------------------------------------- the generators on their own
\* Largest length a generator is called with.
MaxGenLen == 64

GeneratorNames == {"generate_password", "generate_token", "generate_api_key"}

InitGenerate ==
    /\ environ = {"SECRET_ARN"}
    /\ generators = BuiltinGenerators
    /\ store = EmptyStore
    /\ InitLocals
    /\ vSecret = NoValue
    /\ vRet = NotCalled
    /\ gen \in {[name |-> g, length |-> l, seed |-> sd, called |-> FALSE, ret |-> None] :
                   g \in GeneratorNames, l \in 1..MaxGenLen, sd \in Seeds}

CallGenerate ==
    /\ ~gen.called
    /\ gen' = [gen EXCEPT
                 !.called = TRUE,
                 !.ret = CASE gen.name = "generate_password" ->
                                  generate_password(gen.length, gen.seed, 0)
                           [] gen.name = "generate_token" ->
                                  generate_token(gen.length, gen.seed, 0)
                           [] OTHER ->
                                  generate_api_key(gen.length, gen.seed, 0)]
    /\ UNCHANGED << handlerVars, vSecret, vRet >>

NextGenerate == CallGenerate

SpecGenerate == InitGenerate /\ [][NextGenerate]_vars

\* C11: for every positive length each generator returns a string of exactly
\* that many characters, each a letter or a digit or, for the password only,
\* one of !@#$%^&*.
Letters ==
    { "a","b","c","d","e","f","g","h","i","j","k","l","m","n","o","p","q",
      "r","s","t","u","v","w","x","y","z","A","B","C","D","E","F","G","H",
      "I","J","K","L","M","N","O","P","Q","R","S","T","U","V","W","X","Y","Z" }
Digits == { "0","1","2","3","4","5","6","7","8","9" }
PasswordSymbols == { "!","@","#","$","%","^","&","*" }
AlphabetOf(name) ==
    IF name = "generate_password"
    THEN Letters \cup Digits \cup PasswordSymbols
    ELSE Letters \cup Digits
C11_GeneratedLengthAndAlphabet ==
    gen.called =>
        /\ gen.ret.t = "str"
        /\ Len(gen.ret.s) = gen.length
        /\ \A k \in 1..Len(gen.ret.s) : gen.ret.s[k] \in AlphabetOf(gen.name)

\* C11 witness: generate_password was called with length 32 and its result
\* holds one of the symbols.
C11_Witness ==
    /\ gen.called
    /\ gen.name = "generate_password"
    /\ gen.length = 32
    /\ \E k \in 1..Len(gen.ret.s) : gen.ret.s[k] \in PasswordSymbols

\* C12: when the PENDING write fails, the invocation returns Error with
\* status 500 and the message of the fault, neither validates nor calls
\* update_secret_version_stage, and AWSCURRENT is on the version it was on
\* when the invocation began.
PutFailed(i) == Done(i) /\ fault[i] = "put_secret_value"
C12_PutFailureStops ==
    \A i \in Invocations :
        PutFailed(i) =>
            /\ Returned(i)
            /\ result[i].statusCode = 500
            /\ result[i].body = <<ErrorPrefix, "ServiceUnavailableException">>
            /\ validated[i] = "no"
            /\ CallsOf(i, "update_secret_version_stage") = {}
            /\ Holders(storeAtReturn[i], "AWSCURRENT") = Holders(storeAtInvoke[i], "AWSCURRENT")
            /\ Holders(storeAtReturn[i], "AWSCURRENT") = {response[i].VersionId}

\* C12 witness: an invocation is over whose read succeeded and whose
\* put_secret_value call failed.
C12_Witness ==
    \E i \in Invocations :
        /\ PutFailed(i)
        /\ calls[i] = << CallEntry("get_secret_value", TRUE, 0, 0),
                         CallEntry("put_secret_value", FALSE, 0, 0) >>

\* C13: when the promote call fails after a successful PENDING write, the
\* invocation returns Error with status 500, the version it wrote is still
\* in the store with its AWSPENDING label and no version was removed, and
\* AWSCURRENT is on the version read in step 1.
PromoteFailed(i) == Done(i) /\ fault[i] = "update_secret_version_stage"
C13_PromoteFailureKeepsPending ==
    \A i \in Invocations :
        PromoteFailed(i) =>
            /\ IsError(i)
            /\ result[i].statusCode = 500
            /\ CallOk(i, "put_secret_value")
            /\ Len(storeAtReturn[i].versions) = Len(storeAtInvoke[i].versions) + 1
            /\ pendingVersionId[i] \in VersionIds(storeAtReturn[i])
            /\ storeAtReturn[i].versions[pendingVersionId[i]] = json_dumps(new_secret[i])
            /\ "AWSPENDING" \in storeAtReturn[i].stages[pendingVersionId[i]]
            /\ Holders(storeAtReturn[i], "AWSCURRENT") = {response[i].VersionId}

\* C13 witness: an invocation is over whose PENDING write succeeded and whose
\* update_secret_version_stage call failed.
C13_Witness ==
    \E i \in Invocations :
        /\ PromoteFailed(i)
        /\ Len(calls[i]) = 3
        /\ calls[i][2] = CallEntry("put_secret_value", TRUE, 0, 0)
        /\ calls[i][3].op = "update_secret_version_stage"
        /\ ~calls[i][3].ok

\* C14: within one invocation the store calls are a prefix of get_secret_value,
\* put_secret_value, update_secret_version_stage, each made at most once; a
\* call is made only after the one before it succeeded, and the promote call
\* only after validate_secret answered True.
StoreCallOrder == <<"get_secret_value", "put_secret_value", "update_secret_version_stage">>
C14_CallsInOrderOnce ==
    \A i \in Invocations :
        /\ Len(calls[i]) <= 3
        /\ Ops(i) = SubSeq(StoreCallOrder, 1, Len(calls[i]))
        /\ \A k \in 1..(Len(calls[i]) - 1) : calls[i][k].ok
        /\ CallsOf(i, "update_secret_version_stage") # {} => validated[i] = "true"
        /\ validated[i] # "no" => CallOk(i, "put_secret_value")

\* C14 witness: an invocation made the three calls, the last after
\* validate_secret answered True.
C14_Witness ==
    \E i \in Invocations :
        /\ Ops(i) = StoreCallOrder
        /\ validated[i] = "true"

\* ------------------------------------------------------ concurrent invocations
\* The platform starts an invocation while others are in progress: the
\* handler takes no lock on the secret.
InvokeConcurrently(i) ==
    /\ pc[i] = "idle"
    /\ pc' = [pc EXCEPT ![i] = "environ"]
    /\ storeAtInvoke' = [storeAtInvoke EXCEPT ![i] = store]
    /\ UNCHANGED << environ, generators, store, response, current_secret,
                    new_secret, result, fault, calls, pendingVersionId,
                    storeAtReturn, validated, vSecret, vRet, gen >>

NextConcurrent ==
    \E i \in Invocations :
        \/ InvokeConcurrently(i)
        \/ ReadEnviron(i)
        \/ CreateClient(i)
        \/ GetSecretValue(i)
        \/ GenerateNew(i)
        \/ PutSecretValue(i)
        \/ Validate(i)
        \/ UpdateSecretVersionStage(i)

SpecConcurrent == Init /\ [][NextConcurrent]_vars

\* Invocations i and j raced: both read the same AWSCURRENT version, both
\* wrote their PENDING version before either made its promote call, and both
\* made that call.
Raced(i, j) ==
    /\ i # j
    /\ Done(i) /\ Done(j)
    /\ response[i].VersionId # 0
    /\ response[i].VersionId = response[j].VersionId
    /\ CallsOf(i, "update_secret_version_stage") # {}
    /\ CallsOf(j, "update_secret_version_stage") # {}
    /\ \A k \in {i, j} :
           /\ pendingVersionId[i] \in VersionIds(storeAtReturn[k])
           /\ pendingVersionId[j] \in VersionIds(storeAtReturn[k])

\* C15: when two concurrent invocations read the same AWSCURRENT version and
\* both write a PENDING version before either promotes, the two promote calls
\* name the same old version and one of them conflicts (fails) or overrides
\* the other (AWSCURRENT ends on the version one of them wrote).
C15_RacingPromotesCollide ==
    \A i, j \in Invocations :
        Raced(i, j) =>
            /\ \A a \in CallsOf(i, "update_secret_version_stage"),
                  b \in CallsOf(j, "update_secret_version_stage") :
                   calls[i][a].from = calls[j][b].from
            /\ \/ ~CallOk(i, "update_secret_version_stage")
               \/ ~CallOk(j, "update_secret_version_stage")
               \/ Holders(store, "AWSCURRENT") \subseteq
                      {pendingVersionId[i], pendingVersionId[j]}

\* The race of C15 happened and both invocations returned Success.
C15_RaceReached ==
    \E i, j \in Invocations : Raced(i, j) /\ IsSuccess(i) /\ IsSuccess(j)

\* C16: with two concurrent invocations at most one version is labelled
\* AWSCURRENT in every state, and once both have returned Success the
\* AWSCURRENT version holds the bundle one of the two wrote.
C16_ConcurrentCurrentIsNew ==
    /\ Cardinality(Holders(store, "AWSCURRENT")) <= 1
    /\ \A i, j \in Invocations :
           (i # j /\ IsSuccess(i) /\ IsSuccess(j)) =>
               \A h \in Holders(store, "AWSCURRENT") :
                   store.versions[h] \in {json_dumps(new_secret[i]),
                                          json_dumps(new_secret[j])}

\* The part of C17 about validation: in the handler as written no bundle
\* fails validate_secret and no invocation returns the validation failure.
ValidationFailedUnreachable ==
    \A i \in Invocations :
        /\ validated[i] # "false"
        /\ ~IsValidationFailed(i)
        /\ pc[i] \in {"put", "validate", "promote"} => Passed(i)

\* C17: in the handler as written (lengths 32, 64 and 48, the module's own
\* generators) every bundle it builds passes validate_secret, so no
\* invocation ends in ValidationFailed: each ends in Success or in Error.
C17_EndsInSuccessOrError ==
    /\ ValidationFailedUnreachable
    /\ \A i \in Invocations : Done(i) => (IsSuccess(i) \/ IsError(i))

====
